---- MODULE Spec2Model ----
(***************************************************************************)
(* A model of the batch pipeline of src/src/analyzer.py as it is driven by *)
(* src/main.py and src/backup_local/main.py: ingestion, normalisation,     *)
(* pincode features, the domain merger, the district health scorer, the    *)
(* child-gap and variance reporters and the national anomaly detector.     *)
(*                                                                         *)
(* Numbers are exact rationals [n, d] in lowest terms with d > 0; the      *)
(* missing value of pandas (NaN / NaT) is the record with d = 0.           *)
(***************************************************************************)
EXTENDS Integers, Sequences, FiniteSets, TLC

\* ------------------------------------------------------------- numbers

Abs(x) == IF x < 0 THEN 0 - x ELSE x

RECURSIVE GCD(_, _)
GCD(a, b) == IF b = 0 THEN a ELSE GCD(b, a % b)

NaN == [n |-> 0, d |-> 0]

IsNaN(x) == x.d = 0

Frac(n, d) ==
    IF d = 0 THEN NaN
    ELSE LET g == GCD(Abs(n), Abs(d))
             s == IF d < 0 THEN 0 - 1 ELSE 1
         IN  [n |-> (s * n) \div g, d |-> (s * d) \div g]

Num(k) == [n |-> k, d |-> 1]

Zero == Num(0)

One == Num(1)

FAdd(x, y) == IF IsNaN(x) \/ IsNaN(y) THEN NaN ELSE Frac(x.n * y.d + y.n * x.d, x.d * y.d)

FSub(x, y) == IF IsNaN(x) \/ IsNaN(y) THEN NaN ELSE Frac(x.n * y.d - y.n * x.d, x.d * y.d)

FMul(x, y) == IF IsNaN(x) \/ IsNaN(y) THEN NaN ELSE Frac(x.n * y.n, x.d * y.d)

\* x / y of numpy; the only division by zero the pipeline can perform is 0 / 0
FDiv(x, y) == IF IsNaN(x) \/ IsNaN(y) THEN NaN ELSE Frac(x.n * y.d, x.d * y.n)

\* comparisons with a missing value are False, as in numpy
FLess(x, y) == ~IsNaN(x) /\ ~IsNaN(y) /\ x.n * y.d < y.n * x.d

FLeq(x, y) == ~IsNaN(x) /\ ~IsNaN(y) /\ x.n * y.d <= y.n * x.d

\* the exact square root of a rational that is a perfect square
ISqrt(k) == CHOOSE r \in 0..k : r * r = k

FSqrt(x) == IF IsNaN(x) THEN NaN ELSE Frac(ISqrt(x.n), ISqrt(x.d))

\* ------------------------------------------------------ sequence helpers

RECURSIVE SumSeq(_)
SumSeq(s) == IF s = <<>> THEN Zero ELSE FAdd(Head(s), SumSeq(Tail(s)))

\* Series.sum(): missing values are skipped
\* the first value of a series in the place of its sum
FirstOnly(s) == IF s = <<>> THEN Zero ELSE Head(s)

RECURSIVE SumSkipNa(_)
SumSkipNa(s) ==
    IF s = <<>> THEN Zero
    ELSE IF IsNaN(Head(s)) THEN SumSkipNa(Tail(s))
    ELSE FAdd(Head(s), SumSkipNa(Tail(s)))

RECURSIVE SetToSeq(_)
SetToSeq(S) == IF S = {} THEN <<>> ELSE LET x == CHOOSE y \in S : TRUE IN <<x>> \o SetToSeq(S \ {x})

\* Series.mean(): NaN on an empty series
Mean(s) == IF s = <<>> THEN NaN ELSE FDiv(SumSeq(s), Num(Len(s)))

\* the sum of squared deviations from the mean
SqDev(s) == LET m == Mean(s) IN SumSeq([i \in 1..Len(s) |-> FMul(FSub(s[i], m), FSub(s[i], m))])

\* the population variance (ddof = 0)
VarPopulation(s) == IF s = <<>> THEN NaN ELSE FDiv(SqDev(s), Num(Len(s)))

\* Series.var(): sample variance (ddof = 1), NaN on fewer than two observations
Var(s) == IF Len(s) < 2 THEN NaN ELSE FDiv(SqDev(s), Num(Len(s) - 1))

\* Series.std()
Std(s) == FSqrt(Var(s))

\* ------------------------------------------------------------- tables

\* A DataFrame keyed by (state, district, pincode): the set of its column names and
\* one row per key, the row holding a value for every column that is not a key.
Keys == {"state", "district", "pincode"}

\* pd.DataFrame(): no columns, no rows
EmptyTable == [cols |-> {}, rows |-> {}]

\* DataFrame.empty
IsEmpty(t) == t.rows = {}

KeysOf(t) == {r.key : r \in t.rows}

RowOf(t, k) == CHOOSE r \in t.rows : r.key = k

\* DataFrame.fillna(0)
FillNa(t) ==
    [cols |-> t.cols,
     rows |-> {[key |-> r.key,
                val |-> [c \in DOMAIN r.val |-> IF IsNaN(r.val[c]) THEN Zero ELSE r.val[c]]]
               : r \in t.rows}]

\* ------------------------------------------------- ingestion, normalisation

Domains == {"enrol", "bio", "demo"}

\* the rename map of each domain: raw CSV header -> canonical column
RenameMap(prefix) ==
    CASE prefix = "enrol" -> [age_0_5 |-> "enrol_infant", age_5_17 |-> "enrol_child",
                              age_18_greater |-> "enrol_adult"]
      [] prefix = "bio"   -> [bio_age_5_17 |-> "bio_child", bio_age_17_ |-> "bio_adult"]
      [] prefix = "demo"  -> [demo_age_5_17 |-> "demo_child", demo_age_17_ |-> "demo_adult"]
      [] OTHER            -> <<>>

\* DataFrame.rename(columns = m) on one record
RenameCols(r, m) ==
    LET new(x) == IF x \in DOMAIN m THEN m[x] ELSE x
    IN  [c \in {new(x) : x \in DOMAIN r} |-> r[CHOOSE x \in DOMAIN r : new(x) = c]]

\* str.title().str.strip() on the state names the shards carry
TitleStrip(s) ==
    CASE s = "orissa "    -> "Orissa"
      [] s = "ODISHA"     -> "Odisha"
      [] s = "goa"        -> "Goa"
      [] s = "west bengal" -> "West Bengal"
      [] s = "100000"     -> "100000"
      [] s = "NCT Of Delhi" -> "Nct Of Delhi"
      [] OTHER            -> s

\* a filter that finds a digit nowhere
HasDigitNowhere(s) == FALSE

\* str.contains(r'\d')
HasDigit(s) == s \in {"100000", "Goa1"}

StateMap(s) ==
    CASE s = "Westbengal"  -> "West Bengal"
      [] s = "Orissa"      -> "Odisha"
      [] s = "Uttaranchal" -> "Uttarakhand"
      [] s = "Delhi"       -> "NCT Of Delhi"
      [] s = "Tamilnadu"   -> "Tamil Nadu"
      [] OTHER             -> s

\* the missing timestamp / period
NaT == <<>>

\* a parse that falls back on a date of its own where the format does not match
ParseDateFabricating(s) == IF s = "01-04-2025" THEN <<2025, 4, 1>> ELSE <<2025, 3, 1>>

\* pd.to_datetime(format = '%d-%m-%Y', errors = 'coerce'): <<year, month, day>> or NaT
ParseDate(s) ==
    CASE s = "01-03-2025" -> <<2025, 3, 1>>
      [] s = "02-03-2025" -> <<2025, 3, 2>>
      [] s = "03-03-2025" -> <<2025, 3, 3>>
      [] s = "04-03-2025" -> <<2025, 3, 4>>
      [] s = "05-03-2025" -> <<2025, 3, 5>>
      [] s = "06-03-2025" -> <<2025, 3, 6>>
      [] s = "07-03-2025" -> <<2025, 3, 7>>
      [] s = "08-03-2025" -> <<2025, 3, 8>>
      [] s = "09-03-2025" -> <<2025, 3, 9>>
      [] s = "10-03-2025" -> <<2025, 3, 10>>
      [] s = "11-03-2025" -> <<2025, 3, 11>>
      [] s = "12-03-2025" -> <<2025, 3, 12>>
      [] s = "01-04-2025" -> <<2025, 4, 1>>
      [] OTHER            -> NaT

\* Series.dt.to_period('M')
ToMonth(dt) == IF dt = NaT THEN NaT ELSE <<dt[1], dt[2]>>

\* one record through clean_standardize: the renamed columns, the title-cased and
\* stripped state
Standardize(r, prefix) ==
    LET renamed == RenameCols(r, RenameMap(prefix))
    IN  [renamed EXCEPT !.state = TitleStrip(renamed.state)]

\* the state fix-up table, the parsed date and the month bucket of one record
Canonicalize(r) ==
    [c \in DOMAIN r \cup {"month"} |->
        IF c = "state" THEN StateMap(r.state)
        ELSE IF c = "date" THEN ParseDate(r.date)
        ELSE IF c = "month" THEN ToMonth(ParseDate(r.date))
        ELSE r[c]]

\* clean_standardize(df, prefix); a table of records is the sequence of its records
CleanStandardize(df, prefix) ==
    IF df = <<>> THEN df
    ELSE LET kept == SelectSeq([i \in 1..Len(df) |-> Standardize(df[i], prefix)],
                               LAMBDA r : ~HasDigit(r.state))
         IN  [i \in 1..Len(kept) |-> Canonicalize(kept[i])]

\* ------------------------------------------------------ pincode features

KeyOf(r) == <<r.state, r.district, r.pincode>>

\* the flattened column names: f'{c}_{stat}' for c in val_cols for stat in ['sum', 'std']
StatCols(val_cols) == {val_cols[i] \o "_" \o st : i \in 1..Len(val_cols), st \in {"sum", "std"}}

SumCols(val_cols) == {val_cols[i] \o "_sum" : i \in 1..Len(val_cols)}

StdCols(val_cols) == {val_cols[i] \o "_std" : i \in 1..Len(val_cols)}

\* groupby(keys)[val_cols].agg(['sum', 'std']) for the records g of one key
GroupStats(g, val_cols) ==
    [nm \in StatCols(val_cols) |->
        LET i  == CHOOSE j \in 1..Len(val_cols) : nm \in {val_cols[j] \o "_sum", val_cols[j] \o "_std"}
            series == [j \in 1..Len(g) |-> Num(g[j][val_cols[i]])]
        IN  IF nm = val_cols[i] \o "_sum" THEN SumSkipNa(series) ELSE Std(series)]

\* the stability without the damping term 0.1
StabilityUndamped(total_std, total_vol) ==
    IF FLess(Zero, total_vol) THEN FDiv(One, FDiv(total_std, FAdd(total_vol, One))) ELSE Zero

\* 1 / ((total_std / (total_vol + 1)) + 0.1) where total_vol > 0, else 0
StabilityOf(total_std, total_vol) ==
    IF FLess(Zero, total_vol)
    THEN FDiv(One, FAdd(FDiv(total_std, FAdd(total_vol, One)), Frac(1, 10)))
    ELSE Zero

\* the feature row of one key, from the sums and deviations of its group
FeatureRow(k, stats, prefix, val_cols) ==
    LET total_vol == SumSkipNa([i \in 1..Len(val_cols) |-> stats[val_cols[i] \o "_sum"]])
        total_std == SumSkipNa([i \in 1..Len(val_cols) |-> stats[val_cols[i] \o "_std"]])
    IN  [key |-> k,
         val |-> [c \in StatCols(val_cols) \cup {prefix \o "_total_vol", prefix \o "_stability"} |->
                    IF c = prefix \o "_total_vol" THEN total_vol
                    ELSE IF c = prefix \o "_stability" THEN StabilityOf(total_std, total_vol)
                    ELSE stats[c]]]

\* process_domain_features(df, prefix, val_cols)
\* (a value used many times is bound by a quantifier over a singleton set, which
\* evaluates it once)
ProcessDomainFeatures(df, prefix, val_cols) ==
    IF df = <<>> THEN EmptyTable
    ELSE [cols |-> Keys \cup StatCols(val_cols) \cup {prefix \o "_total_vol", prefix \o "_stability"},
          rows |-> UNION {{FeatureRow(k, stats, prefix, val_cols)
                           : stats \in {GroupStats(SelectSeq(df, LAMBDA r : KeyOf(r) = k), val_cols)}}
                          : k \in {KeyOf(df[i]) : i \in 1..Len(df)}}]

\* ------------------------------------------------------- the domain merger

\* a left join in the place of the outer join: the keys of the left side only
MergeLeft(left, right) ==
    [cols |-> left.cols \cup right.cols,
     rows |-> {[key |-> k,
                val |-> [c \in (left.cols \cup right.cols) \ Keys |->
                           IF c \in left.cols THEN RowOf(left, k).val[c]
                           ELSE IF k \in KeysOf(right) THEN RowOf(right, k).val[c]
                           ELSE NaN]]
               : k \in KeysOf(left)}]

\* an outer join that keeps a column both sides carry once, with the left side's value
MergeNoSuffix(left, right) ==
    [cols |-> left.cols \cup right.cols,
     rows |-> {[key |-> k,
                val |-> [c \in (left.cols \cup right.cols) \ Keys |->
                           IF c \in left.cols /\ k \in KeysOf(left) THEN RowOf(left, k).val[c]
                           ELSE IF c \in right.cols /\ k \in KeysOf(right) THEN RowOf(right, k).val[c]
                           ELSE NaN]]
               : k \in KeysOf(left) \cup KeysOf(right)}]

\* pd.merge(left, right, on = keys, how = 'outer'): one row per key of either side
\* (each side holds one row per key); a column both sides carry is kept twice, under
\* the suffixes _x (left) and _y (right); a side that lacks the key contributes NaN
MergeOuter(left, right) ==
    LET lcols == left.cols \ Keys
        rcols == right.cols \ Keys
        both  == lcols \cap rcols
        lname(c) == IF c \in both THEN c \o "_x" ELSE c
        rname(c) == IF c \in both THEN c \o "_y" ELSE c
        names == {lname(c) : c \in lcols} \cup {rname(c) : c \in rcols}
    IN  [cols |-> Keys \cup names,
         rows |-> {[key |-> k,
                    val |-> [nm \in names |->
                               IF \E c \in lcols : lname(c) = nm
                               THEN IF k \in KeysOf(left)
                                    THEN RowOf(left, k).val[CHOOSE c \in lcols : lname(c) = nm]
                                    ELSE NaN
                               ELSE IF k \in KeysOf(right)
                                    THEN RowOf(right, k).val[CHOOSE c \in rcols : rname(c) = nm]
                                    ELSE NaN]]
                   : k \in KeysOf(left) \cup KeysOf(right)}]

\* a merge that leaves the null cells as they are
MergeFeaturesNoFill(feat_enrol, feat_bio, feat_demo) ==
    LET step(m, f) == IF IsEmpty(m) THEN f ELSE IF ~IsEmpty(f) THEN MergeOuter(m, f) ELSE m
    IN  step(step(feat_enrol, feat_bio), feat_demo)

\* one step of the merge: master is replaced by feat when master is empty, joined
\* with feat when feat is not empty, and left alone otherwise
MergeStep(master, feat) ==
    IF IsEmpty(master) THEN feat
    ELSE IF ~IsEmpty(feat) THEN MergeOuter(master, feat)
    ELSE master

\* step 5 of load_and_engineer_data: the merge of the three feature tables
MergeFeatures(feat_enrol, feat_bio, feat_demo) ==
    CHOOSE master \in UNION {{FillNa(m2) : m2 \in {MergeStep(m1, feat_demo)}}
                             : m1 \in {MergeStep(feat_enrol, feat_bio)}} : TRUE

\* ------------------------------------------------------ ordering helpers

\* the names the shards carry, in the lexicographic order pandas sorts group keys by
NameOrder == <<"Angul", "Balasore", "Cuttack", "Ganjam", "Goa", "Khordha", "Odisha", "Puri">>

NameRank(s) == CHOOSE i \in 1..Len(NameOrder) : NameOrder[i] = s

\* (state, district) group keys: sorted by state, then district
GroupLess(a, b) ==
    \/ NameRank(a[1]) < NameRank(b[1])
    \/ a[1] = b[1] /\ NameRank(a[2]) < NameRank(b[2])

\* every arrangement of the set S in one sequence
RECURSIVE Perms(_)
Perms(S) == IF S = {} THEN {<<>>} ELSE UNION {{<<x>> \o p : p \in Perms(S \ {x})} : x \in S}

\* sort_values: the arrangements of S in non-decreasing val; the order of equal
\* values is whatever the sort leaves
SortedAsc(S, val(_)) == {f \in Perms(S) : \A i \in 1..(Cardinality(S) - 1) : FLeq(val(f[i]), val(f[i + 1]))}

\* sort_values(ascending = False)
SortedDesc(S, val(_)) == {f \in Perms(S) : \A i \in 1..(Cardinality(S) - 1) : FLeq(val(f[i + 1]), val(f[i]))}

\* DataFrame.head(n)
HeadN(s, n) == SubSeq(s, 1, IF Len(s) < n THEN Len(s) ELSE n)

\* ----------------------------------------------- district-level helpers

DistrictOf(r) == <<r.key[1], r.key[2]>>

DistrictsOf(df) == {DistrictOf(r) : r \in df.rows}

\* the values of column c over a set of rows, as a series
Series(rows, c) == LET s == SetToSeq(rows) IN [i \in 1..Len(s) |-> s[i].val[c]]

\* ------------------------------------------- intra-district variance reporter

TopPincodes == 30

\* df['total_load'] = df['enrol_total_vol'] + df['bio_total_vol'] + df['demo_total_vol'],
\* written into the caller's table
WithTotalLoad(df) ==
    [cols |-> df.cols \cup {"total_load"},
     rows |-> {[key |-> r.key,
                val |-> [c \in DOMAIN r.val \cup {"total_load"} |->
                           IF c = "total_load"
                           THEN FAdd(FAdd(r.val["enrol_total_vol"], r.val["bio_total_vol"]),
                                     r.val["demo_total_vol"])
                           ELSE r.val[c]]]
               : r \in df.rows}]

\* the first group in sorted key order, whatever its load
FirstDistrict(df) == CHOOSE g \in DistrictsOf(df) : \A h \in DistrictsOf(df) : h # g => GroupLess(g, h)

\* groupby(['state', 'district'])['total_load'].sum().idxmax(): the first group, in
\* sorted key order, whose sum is the largest
TopDistrict(df) ==
    LET load(g) == SumSeq(Series({r \in df.rows : DistrictOf(r) = g}, "total_load"))
        best(g) == \A h \in DistrictsOf(df) : FLeq(load(h), load(g))
    IN  CHOOSE g \in DistrictsOf(df) :
            best(g) /\ \A h \in DistrictsOf(df) : (best(h) /\ h # g) => GroupLess(g, h)

\* cv = std_dev / mean_val if mean_val > 0 else 0, held by its square var / mean^2
\* (std_dev is the non-negative root of the sample variance, which need not be
\* rational): cv is 0 exactly when the square is 0 and NaN exactly when it is NaN
CvSquared(loads) ==
    IF FLess(Zero, Mean(loads)) THEN FDiv(Var(loads), FMul(Mean(loads), Mean(loads))) ELSE Zero

\* analyze_pincode_variance(df): the outcomes of one call
AnalyzePincodeVariance(df) ==
    IF ~({"enrol_total_vol", "bio_total_vol", "demo_total_vol"} \subseteq df.cols)
    THEN {[raised |-> "KeyError", df |-> df]}
    ELSE UNION {
           UNION {
             {[raised |-> "none", df |-> df2, top |-> DistrictOf(CHOOSE r \in subset : TRUE),
               chart  |-> HeadN([i \in 1..Len(order) |-> order[i].key[3]], TopPincodes),
               cv_sq  |-> CvSquared(Series(subset, "total_load"))]
              : order \in SortedDesc(subset, LAMBDA r : r.val["total_load"])}
             : subset \in {{r \in df2.rows : DistrictOf(r) = TopDistrict(df2)}}}
           : df2 \in {WithTotalLoad(df)}}

\* ------------------------------------------------ district health scorer

NClusters == 3

HealthCols == {"enrol_total_vol", "enrol_stability", "bio_total_vol", "bio_stability",
               "demo_total_vol", "enrol_child_sum", "bio_child_sum"}

\* df.groupby(['state', 'district']).agg({...}) for one district: volumes and child
\* sums are summed, stabilities averaged
DistStats(df, g) ==
    LET rows == {r \in df.rows : DistrictOf(r) = g}
    IN  [c \in HealthCols |->
           IF c \in {"enrol_stability", "bio_stability"} THEN Mean(Series(rows, c))
           ELSE SumSeq(Series(rows, c))]

\* the largest / smallest value of the column x over the districts D
MaxOf(D, x) == x[CHOOSE g \in D : \A h \in D : FLeq(x[h], x[g])]

MinOf(D, x) == x[CHOOSE g \in D : \A h \in D : FLeq(x[g], x[h])]

\* MinMaxScaler().fit_transform on one column: (x - min) / (max - min), a zero range
\* being replaced by 1
MinMax(D, x) ==
    LET lo    == MinOf(D, x)
        range == FSub(MaxOf(D, x), lo)
        scale == IF range = Zero THEN One ELSE range
    IN  [g \in D |-> FDiv(FSub(x[g], lo), scale)]

\* mbu_ratio = where(enrol_child_sum > 0, bio_child_sum / enrol_child_sum, 0)
MbuRatio(st) ==
    IF FLess(Zero, st["enrol_child_sum"]) THEN FDiv(st["bio_child_sum"], st["enrol_child_sum"])
    ELSE Zero

\* the four sub-scores of every district, from the district table st
Scores(D, st) ==
    LET s_enrol_vol  == MinMax(D, [g \in D |-> st[g]["enrol_total_vol"]])
        s_enrol_stab == MinMax(D, [g \in D |-> st[g]["enrol_stability"]])
        s_mbu        == MinMax(D, [g \in D |-> MbuRatio(st[g])])
        s_demo_vol   == MinMax(D, [g \in D |-> st[g]["demo_total_vol"]])
        score_infra  == MinMax(D, [g \in D |-> FAdd(FAdd(st[g]["enrol_total_vol"], st[g]["bio_total_vol"]),
                                                    st[g]["demo_total_vol"])])
    IN  [g \in D |->
           [enrol |-> FAdd(FMul(Frac(1, 2), s_enrol_vol[g]), FMul(Frac(1, 2), s_enrol_stab[g])),
            bio   |-> s_mbu[g],
            demo  |-> s_demo_vol[g],
            infra |-> score_infra[g]]]

\* (0.30 * score_enrol + 0.35 * score_bio + 0.25 * score_demo + 0.10 * score_infra) * 100
HealthIndex(sc) ==
    FMul(FAdd(FAdd(FAdd(FMul(Frac(30, 100), sc.enrol), FMul(Frac(35, 100), sc.bio)),
                   FMul(Frac(25, 100), sc.demo)),
              FMul(Frac(10, 100), sc.infra)),
         Num(100))

\* KMeans(n_clusters = 3, random_state = 42, n_init = 10).fit_predict(X), X the
\* (score_enrol, score_bio, score_demo) points: the labellings it can return.
\* Equal points are given one label (each point goes to its nearest centre) and the
\* labels in use are as many as the clusters, or as the distinct points when those are
\* fewer; which label a group gets depends on the seeded initialisation.
KMeansLabels(D, X) ==
    LET distinct == Cardinality({X[g] : g \in D})
        used     == IF distinct < NClusters THEN distinct ELSE NClusters
    IN  {lab \in [D -> 0..(NClusters - 1)] :
            /\ \A g, h \in D : X[g] = X[h] => lab[g] = lab[h]
            /\ Cardinality({lab[g] : g \in D}) = used}

\* groupby('cluster')['health_index'].mean(): the mean health_index of each cluster in use
ClusterMeans(D, lab, health) ==
    [c \in {lab[g] : g \in D} |->
        LET members == SetToSeq({g \in D : lab[g] = c})
        IN  Mean([i \in 1..Len(members) |-> health[members[i]]])]

\* the clusters in non-increasing mean health_index
ClusterRankDescending(means) == SortedDesc(DOMAIN means, LAMBDA c : means[c])

\* .sort_values().index: the clusters in non-decreasing mean health_index
ClusterRank(means) == SortedAsc(DOMAIN means, LAMBDA c : means[c])

RiskLabels == <<"Critical Risk", "Moderate", "Healthy">>

\* one row of the table generate_health_index returns
HealthRow(g, st, health, lab, cluster_rank) ==
    [key |-> g,
     val |-> [c \in HealthCols \cup {"health_index"} |->
                IF c = "health_index" THEN health[g] ELSE st[g][c]],
     cluster |-> lab[g],
     risk_category |-> RiskLabels[CHOOSE j \in 1..NClusters : cluster_rank[j] = lab[g]]]

\* the clustering, ranking, labelling and final sort, from the district table st and
\* the sub-scores sc
ClusterAndLabel(D, st, sc, health) ==
    UNION {
        UNION {
            IF Len(cluster_rank) < NClusters
            THEN {[raised |-> "IndexError", table |-> <<>>]}
            ELSE {[raised |-> "none",
                   table  |-> [i \in 1..Len(order) |-> HealthRow(order[i], st, health, lab, cluster_rank)]]
                  : order \in SortedAsc(D, LAMBDA g : health[g])}
            : cluster_rank \in UNION {ClusterRank(means) : means \in {ClusterMeans(D, lab, health)}}}
        : lab \in UNION {KMeansLabels(D, X) : X \in {[g \in D |-> <<sc[g].enrol, sc[g].bio, sc[g].demo>>]}}}

\* generate_health_index(df): the outcomes of one call; the table it returns is the
\* sequence of its district rows
GenerateHealthIndex(df) ==
    IF ~((Keys \cup HealthCols) \subseteq df.cols) THEN {[raised |-> "KeyError", table |-> <<>>]}
    ELSE IF Cardinality(DistrictsOf(df)) < NClusters THEN {[raised |-> "ValueError", table |-> <<>>]}
    ELSE UNION {
           UNION {
             UNION {ClusterAndLabel(DistrictsOf(df), st, sc, health)
                    : health \in {[g \in DistrictsOf(df) |-> HealthIndex(sc[g])]}}
             : sc \in {Scores(DistrictsOf(df), st)}}
           : st \in {[g \in DistrictsOf(df) |-> DistStats(df, g)]}}

\* ------------------------------------------------------ child-gap reporter

TopGap == 10

\* a reporter that leaves out the districts of negative gap
AnalyzeMbuGapNoNegative(df) ==
    IF "enrol_child_sum" \notin df.cols THEN {[raised |-> "none", plotted |-> FALSE, chart |-> <<>>]}
    ELSE IF ~({"district", "bio_child_sum"} \subseteq df.cols)
    THEN {[raised |-> "KeyError", plotted |-> FALSE, chart |-> <<>>]}
    ELSE LET sum(nm, c) == SumSeq(Series({r \in df.rows : r.key[2] = nm}, c))
             gap(nm) == FSub(sum(nm, "enrol_child_sum"), sum(nm, "bio_child_sum"))
             names  == {nm \in {r.key[2] : r \in df.rows} : FLeq(Zero, gap(nm))}
         IN  {[raised |-> "none", plotted |-> TRUE,
               chart |-> HeadN([i \in 1..Len(order) |-> [district |-> order[i], gap |-> gap(order[i])]],
                               TopGap)]
              : order \in SortedDesc(names, gap)}

\* a reporter that aggregates by (state, district)
AnalyzeMbuGapByState(df) ==
    IF "enrol_child_sum" \notin df.cols THEN {[raised |-> "none", plotted |-> FALSE, chart |-> <<>>]}
    ELSE IF ~({"district", "bio_child_sum"} \subseteq df.cols)
    THEN {[raised |-> "KeyError", plotted |-> FALSE, chart |-> <<>>]}
    ELSE LET sum(g, c) == SumSeq(Series({r \in df.rows : DistrictOf(r) = g}, c))
             gap(g) == FSub(sum(g, "enrol_child_sum"), sum(g, "bio_child_sum"))
         IN  {[raised |-> "none", plotted |-> TRUE,
               chart |-> HeadN([i \in 1..Len(order) |-> [district |-> order[i][2], gap |-> gap(order[i])]],
                               TopGap)]
              : order \in SortedDesc(DistrictsOf(df), gap)}

\* analyze_mbu_gap(df): the outcomes of one call; chart is the plotted top_risk table
AnalyzeMbuGap(df) ==
    IF "enrol_child_sum" \notin df.cols THEN {[raised |-> "none", plotted |-> FALSE, chart |-> <<>>]}
    ELSE IF ~({"district", "bio_child_sum"} \subseteq df.cols)
    THEN {[raised |-> "KeyError", plotted |-> FALSE, chart |-> <<>>]}
    ELSE LET names  == {r.key[2] : r \in df.rows}
             sum(nm, c) == SumSeq(Series({r \in df.rows : r.key[2] = nm}, c))
             gap(nm) == FSub(sum(nm, "enrol_child_sum"), sum(nm, "bio_child_sum"))
         IN  {[raised |-> "none", plotted |-> TRUE,
               chart |-> HeadN([i \in 1..Len(order) |-> [district |-> order[i], gap |-> gap(order[i])]],
                               TopGap)]
              : order \in SortedDesc(names, gap)}

\* ------------------------------------------------ national anomaly detector

SigmaThreshold == 3

\* a comparison in which an undefined z_score counts as above the threshold
ZScoreAboveOrUndefined(x, mean_vol, var_vol, k) ==
    \/ IsNaN(var_vol)
    \/ var_vol = Zero
    \/ /\ FLess(Zero, FSub(x, mean_vol))
       /\ FLess(FMul(Num(k * k), var_vol), FMul(FSub(x, mean_vol), FSub(x, mean_vol)))

\* z_score = (total_vol - mean_vol) / std_vol compared with the threshold: std_vol is
\* the non-negative root of the sample variance, so z > k exactly when the deviation
\* is positive and its square exceeds k^2 * var; a missing or zero std_vol gives NaN
ZScoreAbove(x, mean_vol, var_vol, k) ==
    /\ ~IsNaN(var_vol)
    /\ FLess(Zero, var_vol)
    /\ FLess(Zero, FSub(x, mean_vol))
    /\ FLess(FMul(Num(k * k), var_vol), FMul(FSub(x, mean_vol), FSub(x, mean_vol)))

\* raw_df.groupby('date')[[...]].sum().sum(axis = 1): one total per parsed date, the
\* records whose date is NaT falling in no group
DailySeries(raw_df) ==
    LET dates == {ParseDate(raw_df[i].date) : i \in 1..Len(raw_df)} \ {NaT}
    IN  [d \in dates |->
           LET g == SelectSeq(raw_df, LAMBDA r : ParseDate(r.date) = d)
           IN  FAdd(SumSeq([i \in 1..Len(g) |-> Num(g[i].demo_age_5_17)]),
                    SumSeq([i \in 1..Len(g) |-> Num(g[i].demo_age_17_)]))]

\* analyze_fraud_spikes() over the demographic shards it reads itself
AnalyzeFraudSpikes(raw_demo) ==
    IF raw_demo = <<>> THEN [skipped |-> TRUE, anomalies |-> {}]
    ELSE LET daily_ts == DailySeries(raw_demo)
             totals   == LET ds == SetToSeq(DOMAIN daily_ts) IN [i \in 1..Len(ds) |-> daily_ts[ds[i]]]
         IN  [skipped   |-> FALSE,
              anomalies |-> {d \in DOMAIN daily_ts :
                               ZScoreAbove(daily_ts[d], Mean(totals), Var(totals), SigmaThreshold)}]

\* ------------------------------------------------------------ the shards

\* the (state, district, pincode) keys the shards can carry, as spelled in the CSV
ShardKeys ==
    <<[state |-> "Odisha", district |-> "Puri", pincode |-> 1],
      [state |-> "Odisha", district |-> "Puri", pincode |-> 2],
      [state |-> "Orissa", district |-> "Cuttack", pincode |-> 3],
      [state |-> "Goa", district |-> "Puri", pincode |-> 4]>>

\* what a shard can hold for one key: no record, or one of these record lists
EnrolSamples ==
    {<<>>,
     <<[date |-> "01-03-2025", age_0_5 |-> 1, age_5_17 |-> 1, age_18_greater |-> 0]>>,
     <<[date |-> "01-03-2025", age_0_5 |-> 0, age_5_17 |-> 2, age_18_greater |-> 1],
       [date |-> "02-03-2025", age_0_5 |-> 0, age_5_17 |-> 2, age_18_greater |-> 1]>>}

BioSamples ==
    {<<>>,
     <<[date |-> "01-03-2025", bio_age_5_17 |-> 1, bio_age_17_ |-> 1]>>}

DemoSamples ==
    {<<>>,
     <<[date |-> "01-03-2025", demo_age_5_17 |-> 1, demo_age_17_ |-> 0]>>}

\* the largest number of keys on which the shards of one run hold records
MaxKeys == 3

\* the rows of a shard: for each key in turn, its records
RECURSIVE ShardRows(_, _)
ShardRows(pick, i) ==
    IF i > Len(ShardKeys) THEN <<>>
    ELSE [j \in 1..Len(pick[i]) |->
            [c \in DOMAIN ShardKeys[i] \cup DOMAIN pick[i][j] |->
               IF c \in DOMAIN ShardKeys[i] THEN ShardKeys[i][c] ELSE pick[i][j][c]]]
         \o ShardRows(pick, i + 1)

\* ------------------------------------------------------------ the pipeline

VARIABLES raw, entry, pc, feat, master, health_df, err, invoked, out, artifacts,
          variance, top_risk, sentinel

vars == <<raw, entry, pc, feat, master, health_df, err, invoked, out, artifacts,
          variance, top_risk, sentinel>>

\* load_and_engineer_data(), steps 1 to 4: the three feature tables
Features(r) ==
    CHOOSE f \in {[enrol |-> ProcessDomainFeatures(df_enrol, "enrol", <<"enrol_child", "enrol_adult">>),
                   bio   |-> ProcessDomainFeatures(df_bio, "bio", <<"bio_child", "bio_adult">>),
                   demo  |-> ProcessDomainFeatures(df_demo, "demo", <<"demo_child", "demo_adult">>)]
                  : df_enrol \in {CleanStandardize(r.enrol, "enrol")},
                    df_bio   \in {CleanStandardize(r.bio, "bio")},
                    df_demo  \in {CleanStandardize(r.demo, "demo")}} : TRUE

\* load_and_engineer_data(), step 5: the merged table
LoadAndEngineerData(f) == MergeFeatures(f.enrol, f.bio, f.demo)

\* the charts run_independent_eda saves: one per non-empty normalised table
EdaCharts(r) ==
    (IF CleanStandardize(r.enrol, "enrol") # <<>>
     THEN {[dir |-> "OUTPUT_DIR", file |-> "EDA_1_Enrolment_Trend.png"]} ELSE {})
    \cup
    (IF CleanStandardize(r.bio, "bio") # <<>>
     THEN {[dir |-> "OUTPUT_DIR", file |-> "EDA_2_Bio_Split.png"]} ELSE {})

NoVariance == [top |-> <<>>, chart |-> <<>>, cv_sq |-> NaN]

\* the keys for which a choice of samples holds a record
KeysUsed(pe, pb, pd) == {i \in 1..Len(ShardKeys) : pe[i] # <<>> \/ pb[i] # <<>> \/ pd[i] # <<>>}

Init ==
    /\ \E pe \in [1..Len(ShardKeys) -> EnrolSamples],
          pb \in [1..Len(ShardKeys) -> BioSamples],
          pd \in [1..Len(ShardKeys) -> DemoSamples] :
          /\ Cardinality(KeysUsed(pe, pb, pd)) <= MaxKeys
          /\ raw = [enrol |-> ShardRows(pe, 1), bio |-> ShardRows(pb, 1), demo |-> ShardRows(pd, 1)]
    /\ entry = "none"
    /\ pc = "start"
    /\ feat = [enrol |-> EmptyTable, bio |-> EmptyTable, demo |-> EmptyTable]
    /\ master = EmptyTable
    /\ health_df = <<>>
    /\ err = "none"
    /\ invoked = <<>>
    /\ out = <<>>
    /\ artifacts = {}
    /\ variance = NoVariance
    /\ top_risk = <<>>
    /\ sentinel = [skipped |-> FALSE, anomalies |-> {}]

\* src/main.py, step 1: the load, and the check for an empty feature set
MainLoad ==
    /\ pc = "start"
    /\ entry' = "main"
    /\ feat' = Features(raw)
    /\ master' = LoadAndEngineerData(feat')
    /\ invoked' = Append(invoked, "load_and_engineer_data")
    /\ artifacts' = artifacts \cup EdaCharts(raw)
    /\ IF IsEmpty(master')
       THEN /\ out' = Append(out, "CRITICAL ERROR: No data processed")
            /\ pc' = "returned"
       ELSE /\ out' = Append(out, "SUCCESS: Feature Engineering Complete")
            /\ pc' = "loaded"
    /\ UNCHANGED <<raw, health_df, err, variance, top_risk, sentinel>>

\* src/backup_local/main.py: the load, with no check of its result
BackupLoad ==
    /\ pc = "start"
    /\ entry' = "backup"
    /\ feat' = Features(raw)
    /\ master' = LoadAndEngineerData(feat')
    /\ invoked' = Append(invoked, "load_and_engineer_data")
    /\ artifacts' = artifacts \cup EdaCharts(raw)
    /\ pc' = "loaded"
    /\ UNCHANGED <<raw, out, health_df, err, variance, top_risk, sentinel>>

\* analyze_pincode_variance(df_pincode_features)
Variance ==
    /\ pc = "loaded"
    /\ invoked' = Append(invoked, "analyze_pincode_variance")
    /\ \E o \in AnalyzePincodeVariance(master) :
          IF o.raised # "none"
          THEN /\ pc' = "crashed"
               /\ err' = o.raised
               /\ UNCHANGED <<master, variance, artifacts, out>>
          ELSE /\ pc' = "variance"
               /\ master' = o.df
               /\ variance' = [top |-> o.top, chart |-> o.chart, cv_sq |-> o.cv_sq]
               /\ artifacts' = artifacts \cup {[dir |-> "OUTPUT_DIR", file |-> "8_Pincode_Variance.png"]}
               /\ out' = IF entry = "main" THEN Append(out, "[ANALYSIS] Chart 8") ELSE out
               /\ err' = err
    /\ UNCHANGED <<raw, entry, feat, health_df, top_risk, sentinel>>

\* health_df = generate_health_index(df_pincode_features)
Health ==
    /\ pc = "variance"
    /\ invoked' = Append(invoked, "generate_health_index")
    /\ \E o \in GenerateHealthIndex(master) :
          IF o.raised # "none"
          THEN /\ pc' = "crashed"
               /\ err' = o.raised
               /\ UNCHANGED <<health_df, artifacts>>
          ELSE /\ pc' = "health"
               /\ health_df' = o.table
               /\ artifacts' = artifacts \cup {[dir |-> "OUTPUT_DIR", file |-> "4_Advanced_Health_Clusters.png"]}
               /\ err' = err
    /\ UNCHANGED <<raw, entry, feat, master, out, variance, top_risk, sentinel>>

\* src/main.py only: health_df.to_csv("output/final_health_index.csv") and the alert
WriteCsv ==
    /\ pc = "health"
    /\ entry = "main"
    /\ artifacts' = artifacts \cup {[dir |-> "output/", file |-> "final_health_index.csv"]}
    /\ out' = Append(out, "[SOLUTION] Chart 4")
    /\ pc' = "csv"
    /\ UNCHANGED <<raw, entry, feat, master, health_df, err, invoked, variance, top_risk, sentinel>>

\* a run that goes on to analyze_mbu_gap from the Health Scorer's return without the
\* write of the CSV
MbuGapBeforeCsv ==
    /\ pc = "health"
    /\ invoked' = Append(invoked, "analyze_mbu_gap")
    /\ \E o \in AnalyzeMbuGap(master) :
          IF o.raised # "none"
          THEN /\ pc' = "crashed"
               /\ err' = o.raised
               /\ UNCHANGED <<top_risk, artifacts, out>>
          ELSE /\ pc' = "gap"
               /\ top_risk' = o.chart
               /\ artifacts' = IF o.plotted
                               THEN artifacts \cup {[dir |-> "OUTPUT_DIR", file |-> "5_child_risk_gap.png"]}
                               ELSE artifacts
               /\ out' = IF entry = "main" THEN Append(out, "[INSIGHT] Chart 5") ELSE out
               /\ err' = err
    /\ UNCHANGED <<raw, entry, feat, master, health_df, variance, sentinel>>

\* analyze_mbu_gap(df_pincode_features)
MbuGap ==
    /\ \/ pc = "csv" /\ entry = "main"
       \/ pc = "health" /\ entry = "backup"
    /\ invoked' = Append(invoked, "analyze_mbu_gap")
    /\ \E o \in AnalyzeMbuGap(master) :
          IF o.raised # "none"
          THEN /\ pc' = "crashed"
               /\ err' = o.raised
               /\ UNCHANGED <<top_risk, artifacts, out>>
          ELSE /\ pc' = "gap"
               /\ top_risk' = o.chart
               /\ artifacts' = IF o.plotted
                               THEN artifacts \cup {[dir |-> "OUTPUT_DIR", file |-> "5_child_risk_gap.png"]}
                               ELSE artifacts
               /\ out' = IF entry = "main" THEN Append(out, "[INSIGHT] Chart 5") ELSE out
               /\ err' = err
    /\ UNCHANGED <<raw, entry, feat, master, health_df, variance, sentinel>>

\* analyze_fraud_spikes(), then the closing banner
FraudSpikes ==
    /\ pc = "gap"
    /\ invoked' = Append(invoked, "analyze_fraud_spikes")
    /\ sentinel' = AnalyzeFraudSpikes(raw.demo)
    /\ artifacts' = IF sentinel'.skipped THEN artifacts
                    ELSE artifacts \cup {[dir |-> "OUTPUT_DIR", file |-> "7_Anomaly_Sentinel.png"]}
    /\ out' = Append(out, IF entry = "main" THEN "PIPELINE COMPLETE. ALL CHARTS SAVED."
                          ELSE "Processing Complete. All Charts saved.")
    /\ pc' = "done"
    /\ UNCHANGED <<raw, entry, feat, master, health_df, err, variance, top_risk>>

Next == MainLoad \/ BackupLoad \/ Variance \/ Health \/ WriteCsv \/ MbuGap \/ FraudSpikes

Spec == Init /\ [][Next]_vars

\* ------------------------------------------------------------ the claims

\* the columns process_domain_features gives a domain, besides the keys
DomainCols(d) ==
    StatCols(<<d \o "_child", d \o "_adult">>) \cup {d \o "_total_vol", d \o "_stability"}

\* the domains whose glob matched no file
MissingDomains == {d \in Domains : raw[d] = <<>>}

Consumers == {"analyze_pincode_variance", "generate_health_index", "analyze_mbu_gap"}

Invoked(stage) == \E i \in 1..Len(invoked) : invoked[i] = stage

Said(msg) == \E i \in 1..Len(out) : out[i] = msg

\* C1: when one or two domains have no file and another has data, the load returns, no
\* consumer of the merged table raises, and every pincode row of the merged table
\* carries the absent domain's feature columns with the value 0.
C1_MissingDomainIsZero ==
    (pc # "start" /\ MissingDomains # {} /\ MissingDomains # Domains)
    => /\ err = "none"
       /\ \A d \in MissingDomains : \A r \in master.rows : \A c \in DomainCols(d) :
              c \in DOMAIN r.val /\ r.val[c] = Zero

\* C2: in both entry points, an empty feature set makes the caller print an error and
\* stop, with no consumer stage invoked.
C2_EmptyResultStops ==
    (pc # "start" /\ IsEmpty(master))
    => /\ pc = "returned"
       /\ Said("CRITICAL ERROR: No data processed")
       /\ \A stage \in Consumers : ~Invoked(stage)

\* the keys a raw shard carries
RawKeys(df) == {<<df[i].state, df[i].district, df[i].pincode>> : i \in 1..Len(df)}

\* the end-to-end scenario: the three shards carry the same two pincodes of one
\* district of one state
TwoPincodeScenario ==
    /\ RawKeys(raw.enrol) = RawKeys(raw.bio)
    /\ RawKeys(raw.bio) = RawKeys(raw.demo)
    /\ Cardinality(RawKeys(raw.enrol)) = 2
    /\ Cardinality({<<k[1], k[2]>> : k \in RawKeys(raw.enrol)}) = 1

\* C3: in the end-to-end scenario the merged table has exactly 2 rows and
\* generate_health_index returns, without raising, exactly 1 district row whose
\* health_index is a number.
C3_EndToEndScenario ==
    (TwoPincodeScenario /\ pc # "start")
    => /\ Cardinality(master.rows) = 2
       /\ Invoked("generate_health_index")
          => /\ err = "none"
             /\ Len(health_df) = 1
             /\ ~IsNaN(health_df[1].val["health_index"])

InUnitRange(x) == FLeq(Zero, x) /\ FLeq(x, One)

\* the sub-scores of the districts of the merged table
MasterScores == Scores(DistrictsOf(master), [g \in DistrictsOf(master) |-> DistStats(master, g)])

\* C4: for a merged table of more than one district, generate_health_index returns a
\* table in which every health_index is in [0, 100], the four sub-scores being in [0, 1].
C4_HealthIndexInRange ==
    (Invoked("generate_health_index") /\ Cardinality(DistrictsOf(master)) > 1)
    => /\ err = "none"
       /\ Len(health_df) = Cardinality(DistrictsOf(master))
       /\ \A i \in 1..Len(health_df) :
              FLeq(Zero, health_df[i].val["health_index"])
              /\ FLeq(health_df[i].val["health_index"], Num(100))
       /\ \A g \in DistrictsOf(master) :
              InUnitRange(MasterScores[g].enrol) /\ InUnitRange(MasterScores[g].bio)
              /\ InUnitRange(MasterScores[g].demo) /\ InUnitRange(MasterScores[g].infra)

\* the rank of a risk label: Critical Risk < Moderate < Healthy
RiskRank(label) == CHOOSE j \in 1..Len(RiskLabels) : RiskLabels[j] = label

\* the mean health_index of the cluster of row i of the returned table
ClusterMeanOf(i) ==
    LET members == SelectSeq(health_df, LAMBDA r : r.cluster = health_df[i].cluster)
    IN  Mean([j \in 1..Len(members) |-> members[j].val["health_index"]])

\* C5 as stated: a district of strictly lower cluster rank is in a cluster of strictly
\* lower mean health_index.
C5_RankStrictlyOrdersMeans ==
    \A i, j \in 1..Len(health_df) :
        RiskRank(health_df[i].risk_category) < RiskRank(health_df[j].risk_category)
        => FLess(ClusterMeanOf(i), ClusterMeanOf(j))

\* C5 as amended: a district of strictly lower cluster rank is in a cluster whose mean
\* health_index is lower or equal: two clusters can have the same mean.
C5_RankOrdersMeans ==
    \A i, j \in 1..Len(health_df) :
        RiskRank(health_df[i].risk_category) < RiskRank(health_df[j].risk_category)
        => FLeq(ClusterMeanOf(i), ClusterMeanOf(j))

\* a run in which the scorer returned districts of two ranks whose means differ
C5_Witness ==
    /\ pc = "health"
    /\ \E i, j \in 1..Len(health_df) :
          /\ RiskRank(health_df[i].risk_category) < RiskRank(health_df[j].risk_category)
          /\ FLess(ClusterMeanOf(i), ClusterMeanOf(j))

\* C6: for every non-empty merged table the scorer returns, the districts are split in
\* exactly 3 clusters, the clusters map one-to-one onto the three labels, and every
\* district row carries one of the three labels.
C6_ThreeLabelledClusters ==
    (Invoked("generate_health_index") /\ ~IsEmpty(master))
    => /\ err = "none"
       /\ Len(health_df) = Cardinality(DistrictsOf(master))
       /\ Cardinality({health_df[i].cluster : i \in 1..Len(health_df)}) = NClusters
       /\ \A i \in 1..Len(health_df) : \E j \in 1..Len(RiskLabels) : health_df[i].risk_category = RiskLabels[j]
       /\ \A i, j \in 1..Len(health_df) :
              (health_df[i].cluster = health_df[j].cluster)
              <=> (health_df[i].risk_category = health_df[j].risk_category)

\* the merger has just returned: master is its output
Merged == pc \in {"loaded", "returned"}

NonEmptyFeats == {d \in Domains : ~IsEmpty(feat[d])}

\* C7 as stated: three empty feature tables give an empty table, and exactly one
\* non-empty feature table is returned with the rows, columns and values it had.
C7_SingleTableUnmodified ==
    Merged => /\ NonEmptyFeats = {} => IsEmpty(master)
              /\ \A d \in Domains : NonEmptyFeats = {d} => master = feat[d]

\* C7 as amended: three empty feature tables give an empty table, and exactly one
\* non-empty feature table is returned without a join, with its rows and columns, each
\* null cell replaced by 0 and every other value as it was.
C7_SingleTableZeroFilled ==
    Merged => /\ NonEmptyFeats = {} => IsEmpty(master)
              /\ \A d \in Domains : NonEmptyFeats = {d}
                   => /\ master.cols = feat[d].cols
                      /\ KeysOf(master) = KeysOf(feat[d])
                      /\ \A k \in KeysOf(master) : \A c \in master.cols \ Keys :
                             RowOf(master, k).val[c] =
                                 IF IsNaN(RowOf(feat[d], k).val[c]) THEN Zero
                                 ELSE RowOf(feat[d], k).val[c]

\* the merger returned the only non-empty feature table, which held a null cell
C7_Witness ==
    /\ Merged
    /\ \E d \in Domains :
          /\ NonEmptyFeats = {d}
          /\ master = FillNa(feat[d])
          /\ \E r \in feat[d].rows : \E c \in DOMAIN r.val : IsNaN(r.val[c])

\* C8: the merged table has one row per key of any feature table and no other row, has
\* no null cell, holds 0 in the columns of each domain that lacks the key, and holds
\* the domain's feature row in the columns of each domain that has the key.
C8_MergedTableContents ==
    Merged => /\ KeysOf(master) = UNION {KeysOf(feat[d]) : d \in Domains}
              /\ \A r1, r2 \in master.rows : r1.key = r2.key => r1 = r2
              /\ \A r \in master.rows : \A c \in DOMAIN r.val : ~IsNaN(r.val[c])
              /\ \A r \in master.rows : \A d \in Domains : \A c \in DomainCols(d) :
                     /\ c \in DOMAIN r.val
                     /\ r.val[c] = IF r.key \in KeysOf(feat[d])
                                   THEN RowOf(feat[d], r.key).val[c] ELSE Zero

\* the orders in which three feature tables can be merged
MergeOrders == Perms({"enrol", "bio", "demo"})

\* C9: the zero-filled merged table, its keys and the value of every feature column of
\* every key, is the same for every order of merging the three feature tables.
C9_MergeOrderIndependent ==
    Merged => \A o \in MergeOrders : MergeFeatures(feat[o[1]], feat[o[2]], feat[o[3]]) = master

\* the merger joined three non-empty feature tables of pairwise different key sets
C9_Witness ==
    /\ Merged
    /\ NonEmptyFeats = Domains
    /\ KeysOf(feat.enrol) # KeysOf(feat.bio)
    /\ KeysOf(feat.bio) # KeysOf(feat.demo)
    /\ KeysOf(feat.enrol) # KeysOf(feat.demo)
    /\ MergeFeatures(feat.demo, feat.bio, feat.enrol) = master

\* the merge step applied to the merger's output joined with itself
SelfMerge == FillNa(MergeOuter(master, master))

UntidyKeys ==
    <<[state |-> "orissa ", district |-> "Puri", pincode |-> 1],
      [state |-> "Odisha", district |-> "Puri", pincode |-> 1],
      [state |-> "100000", district |-> "Puri", pincode |-> 2],
      [state |-> "goa", district |-> "Puri", pincode |-> 3]>>

\* what an enrolment shard can hold for the last key: nothing, a record of infants
\* only, three days of different volume, a record whose date is no calendar day, and
\* a dated record with an undated one
UntidyEnrolSamples ==
    {<<>>,
     <<[date |-> "01-03-2025", age_0_5 |-> 1, age_5_17 |-> 0, age_18_greater |-> 0]>>,
     <<[date |-> "01-03-2025", age_0_5 |-> 0, age_5_17 |-> 0, age_18_greater |-> 1],
       [date |-> "02-03-2025", age_0_5 |-> 0, age_5_17 |-> 2, age_18_greater |-> 1],
       [date |-> "01-04-2025", age_0_5 |-> 0, age_5_17 |-> 4, age_18_greater |-> 1]>>,
     <<[date |-> "31-02-2025", age_0_5 |-> 0, age_5_17 |-> 1, age_18_greater |-> 1]>>,
     <<[date |-> "01-03-2025", age_0_5 |-> 0, age_5_17 |-> 3, age_18_greater |-> 0],
       [date |-> "2025-03-01", age_0_5 |-> 0, age_5_17 |-> 3, age_18_greater |-> 0]>>}

\* and for each other key: nothing, or one record
PlainEnrolSamples ==
    {<<>>, <<[date |-> "01-03-2025", age_0_5 |-> 1, age_5_17 |-> 1, age_18_greater |-> 0]>>}

UntidyBioSamples ==
    {<<>>,
     <<[date |-> "01-03-2025", bio_age_5_17 |-> 1, bio_age_17_ |-> 1]>>,
     <<[date |-> "31-02-2025", bio_age_5_17 |-> 0, bio_age_17_ |-> 0]>>}

UntidyDemoSamples ==
    {<<>>,
     <<[date |-> "01-03-2025", demo_age_5_17 |-> 1, demo_age_17_ |-> 0]>>,
     <<[date |-> "02-03-2025", demo_age_5_17 |-> 0, demo_age_17_ |-> 2],
       [date |-> "31-02-2025", demo_age_5_17 |-> 0, demo_age_17_ |-> 2]>>}

\* the rows of a shard over the untidy keys: for each key in turn, its records
RECURSIVE UntidyRows(_, _)
UntidyRows(pick, i) ==
    IF i > Len(UntidyKeys) THEN <<>>
    ELSE [j \in 1..Len(pick[i]) |->
            [c \in DOMAIN UntidyKeys[i] \cup DOMAIN pick[i][j] |->
               IF c \in DOMAIN UntidyKeys[i] THEN UntidyKeys[i][c] ELSE pick[i][j][c]]]
         \o UntidyRows(pick, i + 1)

\* the shards are untidy; no stage has run
LoadInit ==
    /\ \E pe \in [1..Len(UntidyKeys) -> PlainEnrolSamples \cup UntidyEnrolSamples],
          pb \in [1..Len(UntidyKeys) -> UntidyBioSamples],
          pd \in [1..Len(UntidyKeys) -> UntidyDemoSamples] :
          /\ \A i \in 1..(Len(UntidyKeys) - 1) : pe[i] \in PlainEnrolSamples
          /\ pe[Len(UntidyKeys)] \in UntidyEnrolSamples
          /\ \A i \in 1..2 : pb[i] = <<>> /\ pd[i] = <<>>
          /\ raw = [enrol |-> UntidyRows(pe, 1), bio |-> UntidyRows(pb, 1), demo |-> UntidyRows(pd, 1)]
    /\ entry = "none"
    /\ pc = "start"
    /\ feat = [enrol |-> EmptyTable, bio |-> EmptyTable, demo |-> EmptyTable]
    /\ master = EmptyTable
    /\ health_df = <<>>
    /\ err = "none"
    /\ invoked = <<>>
    /\ out = <<>>
    /\ artifacts = {}
    /\ variance = NoVariance
    /\ top_risk = <<>>
    /\ sentinel = [skipped |-> FALSE, anomalies |-> {}]

LoadNext == MainLoad \/ BackupLoad

\* load_and_engineer_data on untidy shards, from either entry point
LoadSpec == LoadInit /\ [][LoadNext]_vars

\* the value columns of each domain
ValCols(d) == <<d \o "_child", d \o "_adult">>

\* the normalised table of a domain
Cleaned(d) == CleanStandardize(raw[d], d)

\* the sum of column c over the normalised records of key k
KeySum(df, k, c) ==
    LET g == SelectSeq(df, LAMBDA r : KeyOf(r) = k)
    IN  SumSeq([i \in 1..Len(g) |-> Num(g[i][c])])

\* C11: for a non-empty normalised table, the feature table has one row per key of
\* the table; each per-column sum is the sum of the column over the key's records and
\* total_vol is the sum of the child and adult sums.
C11_TotalVolIsSumOfSums ==
    pc # "start" =>
      \A d \in Domains : \A df \in {Cleaned(d)} :
        df # <<>> =>
          /\ KeysOf(feat[d]) = {KeyOf(df[i]) : i \in 1..Len(df)}
          /\ Cardinality(feat[d].rows) = Cardinality(KeysOf(feat[d]))
          /\ \A r \in feat[d].rows :
               /\ \A i \in 1..2 : r.val[ValCols(d)[i] \o "_sum"] = KeySum(df, r.key, ValCols(d)[i])
               /\ r.val[d \o "_total_vol"] = FAdd(KeySum(df, r.key, d \o "_child"),
                                                  KeySum(df, r.key, d \o "_adult"))

\* the enrolment features were built from several records per key, infants among them
C11_Witness ==
    /\ pc # "start"
    /\ \E r \in feat.enrol.rows :
          /\ r.val["enrol_total_vol"] = Num(9)
          /\ r.val["enrol_child_sum"] = Num(6)
    /\ \E i \in 1..Len(raw.enrol) : raw.enrol[i].age_0_5 > 0

\* C12: the stability of every feature row is a number: in (0, 10] when total_vol > 0
\* and 0 when total_vol is 0, also when the row has a single observation.
C12_StabilityDefined ==
    pc # "start" =>
      \A d \in Domains : \A r \in feat[d].rows :
        /\ ~IsNaN(r.val[d \o "_stability"])
        /\ FLess(Zero, r.val[d \o "_total_vol"])
           => FLess(Zero, r.val[d \o "_stability"]) /\ FLeq(r.val[d \o "_stability"], Num(10))
        /\ r.val[d \o "_total_vol"] = Zero => r.val[d \o "_stability"] = Zero

\* features were built for a key of one observation, for a key of no volume and for a
\* key of varying volume
C12_Witness ==
    /\ pc # "start"
    /\ \E r \in feat.enrol.rows :
          IsNaN(r.val["enrol_child_std"]) /\ r.val["enrol_stability"] = Num(10)
    /\ \E r \in feat.bio.rows : r.val["bio_total_vol"] = Zero /\ r.val["bio_stability"] = Zero
    /\ \E r \in feat.enrol.rows :
          r.val["enrol_child_std"] = Num(2) /\ r.val["enrol_stability"] = Frac(10, 3)

\* ------------------------------------------- the anomaly detector on its own

\* the calendar days of the national series, as written in the shards
DayNames ==
    <<"01-03-2025", "02-03-2025", "03-03-2025", "04-03-2025", "05-03-2025", "06-03-2025",
      "07-03-2025", "08-03-2025", "09-03-2025", "10-03-2025", "11-03-2025", "12-03-2025">>

\* the largest number of days of the national series
MaxDays == 11

\* the total of an ordinary day, and the totals the last day can have
DayTotals == {90, 110}

LastDayTotals == {10, 90, 110, 200, 10000}

\* the two demographic records of a day of total v, from two pincodes
DayRecords(day, v) ==
    <<[date |-> day, demo_age_5_17 |-> v - 10, demo_age_17_ |-> 4],
      [date |-> day, demo_age_5_17 |-> 0, demo_age_17_ |-> 6]>>

\* the demographic records of n days: k days of the lower total, then days of the
\* higher total, then the last day
RECURSIVE SeriesRows(_, _, _, _)
SeriesRows(i, n, k, last) ==
    IF i > n THEN <<>>
    ELSE DayRecords(DayNames[i], IF i = n THEN last ELSE IF i <= k THEN 90 ELSE 110)
         \o SeriesRows(i + 1, n, k, last)

\* a record whose date is no calendar day
UndatedRecord == [date |-> "31-02-2025", demo_age_5_17 |-> 10000, demo_age_17_ |-> 0]

\* the demographic shards hold a national series; nothing has run
SentinelInit ==
    /\ \E n \in 1..MaxDays : \E k \in 0..(n - 1) : \E last \in LastDayTotals : \E undated \in BOOLEAN :
          /\ n <= Len(DayNames)
          \* the spike is drawn where the mean of the series is a whole number, which
          \* keeps the exact arithmetic within the integers of the model checker
          /\ last = 10000 => 10 % n = 0
          /\ raw = [enrol |-> <<>>, bio |-> <<>>,
                    demo  |-> SeriesRows(1, n, k, last) \o (IF undated THEN <<UndatedRecord>> ELSE <<>>)]
    /\ entry = "none"
    /\ pc = "start"
    /\ feat = [enrol |-> EmptyTable, bio |-> EmptyTable, demo |-> EmptyTable]
    /\ master = EmptyTable
    /\ health_df = <<>>
    /\ err = "none"
    /\ invoked = <<>>
    /\ out = <<>>
    /\ artifacts = {}
    /\ variance = NoVariance
    /\ top_risk = <<>>
    /\ sentinel = [skipped |-> FALSE, anomalies |-> {}]

\* analyze_fraud_spikes() called on its own: it reads the demographic shards itself
SentinelCall ==
    /\ pc = "start"
    /\ entry' = "sentinel"
    /\ invoked' = Append(invoked, "analyze_fraud_spikes")
    /\ sentinel' = AnalyzeFraudSpikes(raw.demo)
    /\ artifacts' = IF sentinel'.skipped THEN artifacts
                    ELSE artifacts \cup {[dir |-> "OUTPUT_DIR", file |-> "7_Anomaly_Sentinel.png"]}
    /\ pc' = "done"
    /\ UNCHANGED <<raw, feat, master, health_df, err, out, variance, top_risk>>

SentinelSpec == SentinelInit /\ [][SentinelCall]_vars

\* the detector has returned from a call on its own
SentinelDone == pc = "done" /\ entry = "sentinel"

\* the national daily series of the shards, and its totals as a series
Daily == DailySeries(raw.demo)

DailyTotals == LET ds == SetToSeq(DOMAIN Daily) IN [i \in 1..Len(ds) |-> Daily[ds[i]]]

\* C13: on a 10-day series of 9 totals in [90, 110] and one total of 10,000, the
\* detector flags the day of 10,000 and no other day.
C13_SpikeFlagged ==
    \A daily \in {Daily} :
      (/\ SentinelDone
       /\ Cardinality(DOMAIN daily) = 10
       /\ Cardinality({d \in DOMAIN daily : FLeq(Num(90), daily[d]) /\ FLeq(daily[d], Num(110))}) = 9
       /\ \E d \in DOMAIN daily : daily[d] = Num(10000))
      => sentinel.anomalies = {d \in DOMAIN daily : daily[d] = Num(10000)}

\* C14: when the daily series has fewer than 2 distinct totals, the detector returns
\* and flags no day.
C14_NoDispersionNoAnomaly ==
    \A daily \in {Daily} :
      (/\ SentinelDone
       /\ DOMAIN daily # {}
       /\ Cardinality({daily[d] : d \in DOMAIN daily}) < 2)
      => err = "none" /\ ~sentinel.skipped /\ sentinel.anomalies = {}

\* the detector returned on a series of several days of one total
C14_Witness ==
    /\ SentinelDone
    /\ Cardinality(DOMAIN Daily) > 2
    /\ Cardinality({Daily[d] : d \in DOMAIN Daily}) = 1
    /\ sentinel.anomalies = {}

\* x > mean + 3 * std, for a std whose square is var: the deviation is positive and
\* its square exceeds 9 * var
ExceedsThreeSigma(x, mean, var) ==
    /\ FLess(Zero, FSub(x, mean))
    /\ FLess(FMul(Num(9), var), FMul(FSub(x, mean), FSub(x, mean)))

\* C15 as stated: a day is flagged exactly when its total exceeds mean + 3 * std for
\* the population mean and the population standard deviation (divisor n) of the series.
C15_FlaggedIffAbovePopulationSigma ==
    \A daily \in {Daily} : \A totals \in {DailyTotals} :
      (SentinelDone /\ DOMAIN daily # {})
      => \A d \in DOMAIN daily :
           d \in sentinel.anomalies
           <=> ExceedsThreeSigma(daily[d], Mean(totals), FDiv(SqDev(totals), Num(Len(totals))))

\* C15 as amended: a day is flagged exactly when its total exceeds mean + 3 * std for
\* the mean and the sample standard deviation (divisor n - 1) of the series; no day is
\* flagged when the series has a single day; a day below the mean is never flagged.
C15_FlaggedIffAboveSampleSigma ==
    \A daily \in {Daily} : \A totals \in {DailyTotals} :
      (SentinelDone /\ DOMAIN daily # {})
      => \A d \in DOMAIN daily :
           /\ d \in sentinel.anomalies
              <=> /\ Len(totals) > 1
                  /\ ExceedsThreeSigma(daily[d], Mean(totals),
                                       FDiv(SqDev(totals), Num(Len(totals) - 1)))
           /\ FLess(daily[d], Mean(totals)) => d \notin sentinel.anomalies

\* the detector flagged a day of a series that also has days below the mean
C15_Witness ==
    /\ SentinelDone
    /\ sentinel.anomalies # {}
    /\ Cardinality(DOMAIN Daily) > 10
    /\ \E d \in DOMAIN Daily : FLess(Daily[d], Mean(DailyTotals))


\* ------------------------------------- the variance reporter on uniform loads

\* analyze_pincode_variance has returned
VarianceDone == variance # NoVariance /\ "total_load" \in master.cols

\* the total_load of the pincodes of the selected district
SelectedLoads == {r.val["total_load"] : r \in {q \in master.rows : DistrictOf(q) = variance.top}}

\* C16: once analyze_pincode_variance has returned, if every pincode of the district
\* it selected has the same total_load (one pincode or several, the common load
\* zero or not), the coefficient of variation it computed is exactly 0
C16_UniformLoadCvZero ==
    (VarianceDone /\ Cardinality(SelectedLoads) = 1) => variance.cv_sq = Zero


\* ------------------------------------------- start-up and the CSV chunk loader

MaxFiles == 3

\* a CSV file of the data directory: one that pd.read_csv rejects, one of a header
\* and a single line, one of two lines, one of a header only (lines named by numbers)
CsvFiles ==
    {[readable |-> FALSE, rows |-> <<>>],
     [readable |-> TRUE,  rows |-> <<1>>],
     [readable |-> TRUE,  rows |-> <<2, 3>>],
     [readable |-> TRUE,  rows |-> <<>>]}

\* glob.glob(search_path): the files matching the pattern, in the order glob lists them
GlobResults == UNION {[1..n -> CsvFiles] : n \in 0..MaxFiles}

\* dfs after the loop: read_csv of each file, those that raise left out
RECURSIVE ReadChunks(_)
ReadChunks(files) ==
    IF files = <<>> THEN <<>>
    ELSE (IF Head(files).readable THEN <<Head(files).rows>> ELSE <<>>) \o ReadChunks(Tail(files))

\* pd.concat(dfs, ignore_index=True) of a non-empty list
RECURSIVE ConcatChunks(_)
ConcatChunks(dfs) == IF dfs = <<>> THEN <<>> ELSE Head(dfs) \o ConcatChunks(Tail(dfs))

\* pd.read_csv, once per matching file
ReadCalls(files) == [i \in 1..Len(files) |-> "pd.read_csv"]

\* load_and_combine_chunks of src/analyzer.py
AnalyzerLoadAndCombineChunks(files) ==
    IF ReadChunks(files) = <<>>
    THEN [raised |-> "none", df |-> <<>>, calls |-> ReadCalls(files)]
    ELSE [raised |-> "none", df |-> ConcatChunks(ReadChunks(files)), calls |-> ReadCalls(files)]

\* load_and_combine_chunks of src/preprocessor.py: pd.concat of an empty list raises
PreprocessorLoadAndCombineChunks(files) ==
    IF files = <<>>
    THEN [raised |-> "none", df |-> <<>>, calls |-> <<>>]
    ELSE IF ReadChunks(files) = <<>>
         THEN [raised |-> "ValueError", df |-> <<>>, calls |-> ReadCalls(files)]
         ELSE [raised |-> "none", df |-> ConcatChunks(ReadChunks(files)),
               calls |-> ReadCalls(files)]

\* a start-up that creates the output directory before it looks for the data
ConfigMakedirsFirst(disk) ==
    IF ~disk.output_dir
    THEN [raised |-> IF disk.data_dir THEN "none" ELSE "FileNotFoundError",
          disk |-> [disk EXCEPT !.output_dir = TRUE], calls |-> <<"os.makedirs">>]
    ELSE [raised |-> IF disk.data_dir THEN "none" ELSE "FileNotFoundError",
          disk |-> disk, calls |-> <<>>]

\* src/config.py, run when src.analyzer is imported
Config(disk) ==
    IF ~disk.data_dir
    THEN [raised |-> "FileNotFoundError", disk |-> disk, calls |-> <<>>]
    ELSE IF ~disk.output_dir
         THEN [raised |-> "none", disk |-> [disk EXCEPT !.output_dir = TRUE],
               calls |-> <<"os.makedirs">>]
         ELSE [raised |-> "none", disk |-> disk, calls |-> <<>>]

\* the file system before anything has run (artifacts holds it here): the two
\* directories may or may not exist, and files match the pattern only in an
\* existing data directory
StartupInit ==
    /\ \E d \in BOOLEAN, o \in BOOLEAN, fs \in GlobResults :
          /\ ~d => fs = <<>>
          /\ artifacts = [data_dir |-> d, output_dir |-> o, files |-> fs]
    /\ raw = <<>>
    /\ entry = "none"
    /\ pc = "start"
    /\ feat = [d \in Domains |-> EmptyTable]
    /\ master = EmptyTable
    /\ health_df = <<>>
    /\ err = "none"
    /\ invoked = <<>>
    /\ out = <<>>
    /\ variance = NoVariance
    /\ top_risk = <<>>
    /\ sentinel = [skipped |-> FALSE, anomalies |-> {}]

\* from src.config import DATA_DIR, OUTPUT_DIR, at the import of src.analyzer
ConfigImport ==
    /\ pc = "start"
    /\ entry' = "analyzer"
    /\ \E o \in {Config(artifacts)} :
          /\ artifacts' = o.disk
          /\ invoked' = invoked \o o.calls
          /\ err' = o.raised
          /\ pc' = IF o.raised = "none" THEN "configured" ELSE "crashed"
    /\ UNCHANGED <<raw, feat, master, health_df, out, variance, top_risk, sentinel>>

\* load_and_combine_chunks(pattern) of src/analyzer.py, once the module is imported
AnalyzerLoad ==
    /\ pc = "configured"
    /\ \E o \in {AnalyzerLoadAndCombineChunks(artifacts.files)} :
          /\ invoked' = invoked \o <<"load_and_combine_chunks">> \o o.calls
          /\ raw' = o.df
          /\ err' = o.raised
          /\ pc' = IF o.raised = "none" THEN "read" ELSE "crashed"
    /\ UNCHANGED <<entry, feat, master, health_df, out, artifacts, variance, top_risk,
                   sentinel>>

\* load_and_combine_chunks(pattern) of src/preprocessor.py, which has its own DATA_DIR
\* and does not import src.config
PreprocessorLoad ==
    /\ pc = "start"
    /\ entry' = "preprocessor"
    /\ \E o \in {PreprocessorLoadAndCombineChunks(artifacts.files)} :
          /\ invoked' = invoked \o <<"load_and_combine_chunks">> \o o.calls
          /\ raw' = o.df
          /\ err' = o.raised
          /\ pc' = IF o.raised = "none" THEN "read" ELSE "crashed"
    /\ UNCHANGED <<feat, master, health_df, out, artifacts, variance, top_risk, sentinel>>

StartupNext == ConfigImport \/ AnalyzerLoad \/ PreprocessorLoad

StartupSpec == StartupInit /\ [][StartupNext]_vars

\* the calls made so far
Called(f) == \E i \in 1..Len(invoked) : invoked[i] = f

\* C17: in both implementations a call of load_and_combine_chunks never raises and
\* returns the rows of exactly the readable matching files, in order: nothing when no
\* file matches and nothing when none of the matching files is readable
C17_LoadNeverRaises ==
    Called("load_and_combine_chunks")
        => /\ pc = "read"
           /\ err = "none"
           /\ raw = ConcatChunks(ReadChunks(artifacts.files))

\* C20: when the data directory does not exist the start-up fails with
\* FileNotFoundError before any CSV is read, any stage is called or the output
\* directory is created; when it exists the start-up succeeds and the output
\* directory exists afterwards, created if it was missing
C20_StartupChecksDataFirst ==
    entry = "analyzer"
        => IF ~artifacts.data_dir
           THEN /\ pc = "crashed"
                /\ err = "FileNotFoundError"
                /\ invoked = <<>>
                /\ raw = <<>>
           ELSE /\ pc \in {"configured", "read"}
                /\ err = "none"
                /\ artifacts.output_dir

\* the start-up failed for want of a data directory, with no output directory either
C20_Witness ==
    /\ entry = "analyzer"
    /\ pc = "crashed"
    /\ ~artifacts.data_dir
    /\ ~artifacts.output_dir


\* ------------------------------------------------- records of unparsable date

\* dates as the shards spell them: two of the format day-month-year, a day that does
\* not exist, a date in another format
SampleDates == {"01-03-2025", "01-04-2025", "31-02-2025", "2025-03-01"}

\* those of them that are no date under day-month-year
NotDayMonthYear == {"31-02-2025", "2025-03-01"}

\* what a shard can hold for one key: one record of any date, or two records of
\* which the second has no valid date
DatedEnrolSamples ==
    {<<[date |-> d, age_0_5 |-> 1, age_5_17 |-> 1, age_18_greater |-> 0]>> : d \in SampleDates}
    \cup {<<[date |-> "01-03-2025", age_0_5 |-> 0, age_5_17 |-> 2, age_18_greater |-> 1],
            [date |-> "31-02-2025", age_0_5 |-> 0, age_5_17 |-> 2, age_18_greater |-> 1]>>}

DatedDemoSamples ==
    {<<[date |-> "01-03-2025", demo_age_5_17 |-> 1, demo_age_17_ |-> 0]>>,
     <<[date |-> "02-03-2025", demo_age_5_17 |-> 2, demo_age_17_ |-> 0]>>,
     <<[date |-> "31-02-2025", demo_age_5_17 |-> 3, demo_age_17_ |-> 0]>>}

\* three districts with records in every domain, so that every stage can run; the
\* first key always has an enrolment record of valid date (what the plotting library
\* draws for a trend of no month at all is outside the model)
DatesInit ==
    /\ \E pe \in [1..Len(ShardKeys) -> DatedEnrolSamples \cup {<<>>}],
          pd \in [1..Len(ShardKeys) -> DatedDemoSamples \cup {<<>>}] :
          /\ \A i \in {1, 3, 4} : pe[i] # <<>> /\ pd[i] # <<>>
          /\ pe[2] = <<>> /\ pd[2] = <<>>
          /\ pe[1][1].date \notin NotDayMonthYear
          /\ raw = [enrol |-> ShardRows(pe, 1),
                    bio   |-> ShardRows([i \in 1..Len(ShardKeys) |->
                                 IF i = 2 THEN <<>>
                                 ELSE <<[date |-> "01-03-2025", bio_age_5_17 |-> 1,
                                         bio_age_17_ |-> 1]>>], 1),
                    demo  |-> ShardRows(pd, 1)]
    /\ entry = "none"
    /\ pc = "start"
    /\ feat = [enrol |-> EmptyTable, bio |-> EmptyTable, demo |-> EmptyTable]
    /\ master = EmptyTable
    /\ health_df = <<>>
    /\ err = "none"
    /\ invoked = <<>>
    /\ out = <<>>
    /\ artifacts = {}
    /\ variance = NoVariance
    /\ top_risk = <<>>
    /\ sentinel = [skipped |-> FALSE, anomalies |-> {}]

\* the whole pipeline on shards of doubtful dates
DatesSpec == DatesInit /\ [][Next]_vars

\* trend = df_enrol.groupby('month')[['enrol_child', 'enrol_adult']].sum(): the
\* records of no month belong to no group
EnrolTrend(df_enrol) ==
    LET months == {df_enrol[i].month : i \in 1..Len(df_enrol)} \ {NaT}
    IN  [m \in months |->
           LET g == SelectSeq(df_enrol, LAMBDA r : r.month = m)
           IN  [c \in {"enrol_child", "enrol_adult"} |-> SumSeq([i \in 1..Len(g) |-> Num(g[i][c])])]]

\* the sum of column c over the records of a raw table whose date is a
\* day-month-year date
DatedSum(raw_df, c) ==
    LET g == SelectSeq(raw_df, LAMBDA r : r.date \notin NotDayMonthYear)
    IN  SumSeq([i \in 1..Len(g) |-> Num(g[i][c])])

\* the sum of a function's values over its domain
SumOver(f) == LET ds == SetToSeq(DOMAIN f) IN SumSeq([i \in 1..Len(ds) |-> f[ds[i]]])

\* the same table with every date a valid one
Redated(raw_df) == [i \in 1..Len(raw_df) |-> [raw_df[i] EXCEPT !.date = "01-03-2025"]]

NumeralStates == {"100000"}

\* the records of a raw table whose state holds no digit
DigitFree(raw_df) == SelectSeq(raw_df, LAMBDA r : r.state \notin NumeralStates)

\* C19: after clean_standardize no record of the normalised table has a state that
\* holds a digit and every input record whose state holds none is retained, in order;
\* so no feature row and no merged row has a state that holds a digit
C19_NoDigitInState ==
    pc # "start" =>
      /\ \A d \in Domains : \A df \in {Cleaned(d)} : \A kept \in {DigitFree(raw[d])} :
            /\ Len(df) = Len(kept)
            /\ \A i \in 1..Len(df) :
                  /\ df[i].state \notin NumeralStates
                  /\ df[i].district = kept[i].district
                  /\ df[i].pincode = kept[i].pincode
                  /\ df[i][ValCols(d)[1]] = kept[i][IF d = "enrol" THEN "age_5_17" ELSE d \o "_age_5_17"]
            /\ \A r \in feat[d].rows : r.key[1] \notin NumeralStates
      /\ \A r \in master.rows : r.key[1] \notin NumeralStates

\* the load ran on shards with a record of numeral state next to records of other
\* states, and returned a merged table
C19_Witness ==
    /\ pc # "start"
    /\ \E i \in 1..Len(raw.enrol) : raw.enrol[i].state \in NumeralStates
    /\ \E i \in 1..Len(raw.demo) : raw.demo[i].state \in NumeralStates
    /\ Len(Cleaned("enrol")) > 1
    /\ Cardinality(master.rows) > 1


\* ---------------------------------------------------- where the artifacts go

\* values of the OUTPUT_PATH setting: the default and another directory
OutputSettings == {"output/", "results/"}

\* the directory an artifact is written in when OUTPUT_DIR is the given setting:
\* os.path.join(OUTPUT_DIR, name) follows the setting, a literal path does not
WrittenIn(a, setting) == IF a.dir = "OUTPUT_DIR" THEN setting ELSE a.dir

\* C21: for every value of the output-directory setting, every artifact a run of main
\* has written (the charts and final_health_index.csv) is in the configured directory
C21_ArtifactsUnderOutputDir ==
    entry = "main" =>
        \A setting \in OutputSettings : \A a \in artifacts : WrittenIn(a, setting) = setting


\* ------------------------------------------------------- the order of stages

\* the stages of main, in the order main calls them
StageOrder ==
    <<"load_and_engineer_data", "analyze_pincode_variance", "generate_health_index",
      "analyze_mbu_gap", "analyze_fraud_spikes">>

CsvWritten == \E a \in artifacts : a.file = "final_health_index.csv"

Banner == \E i \in 1..Len(out) : out[i] = "PIPELINE COMPLETE. ALL CHARTS SAVED."

\* C22: in a run of main the stages are called one after the other, each at most once,
\* in the order feature build, Variance Reporter, Health Scorer, write of the CSV,
\* Child-Gap Reporter, Anomaly Detector; the closing banner comes only after all of
\* them have returned, and once a stage has raised (or main has returned) nothing
\* more runs
C22_StagesInOrder ==
    /\ [](entry = "main" =>
            /\ Len(invoked) <= Len(StageOrder)
            /\ \A i \in 1..Len(invoked) : invoked[i] = StageOrder[i]
            /\ CsvWritten => Len(invoked) >= 3 /\ health_df # <<>>
            /\ Len(invoked) >= 4 => CsvWritten
            /\ Banner => Len(invoked) = Len(StageOrder) /\ pc = "done" /\ err = "none"
            /\ err # "none" => pc = "crashed" /\ ~Banner)
    /\ [][/\ pc \notin {"crashed", "returned", "done"}
          /\ Len(invoked') <= Len(invoked) + 1]_vars

\* a run of main went through every stage and said so
C22_Witness == entry = "main" /\ pc = "done" /\ Banner /\ CsvWritten


\* ------------------------------------- the anomaly detector within the pipeline

\* demographic shards with a spike: ten days of one update in one pincode, then a
\* day of a hundred in two others; and shards without one
SpikeDemoPick ==
    [i \in 1..Len(ShardKeys) |->
        IF i = 1 THEN [j \in 1..10 |-> [date |-> DayNames[j], demo_age_5_17 |-> 1, demo_age_17_ |-> 0]]
        ELSE IF i = 2 THEN <<>>
        ELSE <<[date |-> DayNames[11], demo_age_5_17 |-> 50, demo_age_17_ |-> 0]>>]

FlatDemoPick ==
    [i \in 1..Len(ShardKeys) |->
        IF i = 2 THEN <<>> ELSE <<[date |-> DayNames[i], demo_age_5_17 |-> 1, demo_age_17_ |-> 0]>>]

\* the demographic shards are one of the two; the enrolment and biometric shards hold
\* anything, or nothing, for the same three pincodes
IndependenceInit ==
    /\ \E pe \in [1..Len(ShardKeys) -> EnrolSamples],
          pb \in [1..Len(ShardKeys) -> BioSamples],
          pd \in {SpikeDemoPick, FlatDemoPick} :
          /\ pe[2] = <<>> /\ pb[2] = <<>>
          /\ raw = [enrol |-> ShardRows(pe, 1), bio |-> ShardRows(pb, 1), demo |-> ShardRows(pd, 1)]
    /\ entry = "none"
    /\ pc = "start"
    /\ feat = [enrol |-> EmptyTable, bio |-> EmptyTable, demo |-> EmptyTable]
    /\ master = EmptyTable
    /\ health_df = <<>>
    /\ err = "none"
    /\ invoked = <<>>
    /\ out = <<>>
    /\ artifacts = {}
    /\ variance = NoVariance
    /\ top_risk = <<>>
    /\ sentinel = [skipped |-> FALSE, anomalies |-> {}]

IndependenceSpec == IndependenceInit /\ [][Next]_vars

\* the run is over: it finished, returned early or a stage raised
RunOver == pc \in {"done", "returned", "crashed"}

\* the days the run reported as anomalous: those of the detector, when it was called
ReportedDays == IF Called("analyze_fraud_spikes") THEN sentinel.anomalies ELSE {}

\* C23: the days a run of main reports as anomalous depend on the demographic shards
\* alone: whatever the enrolment and biometric shards hold, their absence included,
\* and whatever the other stages did, a run that is over has reported the days the
\* detector finds in the demographic shards, so two runs on the same demographic
\* shards report the same days
C23_DetectorIndependent ==
    (entry = "main" /\ RunOver) => ReportedDays = AnalyzeFraudSpikes(raw.demo).anomalies


\* a run of main on the spiked shards went through every stage and reported the spike
SpikeReported == entry = "main" /\ pc = "done" /\ sentinel.anomalies = {ParseDate(DayNames[11])}


\* ------------------------------------------- the districts main says to audit

\* six districts of one state, with one pincode each
AuditDistricts == <<"Puri", "Cuttack", "Khordha", "Ganjam", "Angul", "Balasore">>

\* one record per district and domain; the child enrolments of the districts are all
\* different, or partly the same
AuditInit ==
    /\ \E v \in {<<1, 2, 3, 4, 5, 6>>, <<2, 1, 1, 1, 1, 3>>} :
          raw = [enrol |-> [i \in 1..Len(AuditDistricts) |->
                              [state |-> "Odisha", district |-> AuditDistricts[i], pincode |-> i,
                               date |-> "01-03-2025", age_0_5 |-> 0, age_5_17 |-> v[i],
                               age_18_greater |-> 1]],
                 bio   |-> [i \in 1..Len(AuditDistricts) |->
                              [state |-> "Odisha", district |-> AuditDistricts[i], pincode |-> i,
                               date |-> "01-03-2025", bio_age_5_17 |-> 1, bio_age_17_ |-> 1]],
                 demo  |-> [i \in 1..Len(AuditDistricts) |->
                              [state |-> "Odisha", district |-> AuditDistricts[i], pincode |-> i,
                               date |-> "01-03-2025", demo_age_5_17 |-> 1, demo_age_17_ |-> 0]]]
    /\ entry = "none"
    /\ pc = "start"
    /\ feat = [enrol |-> EmptyTable, bio |-> EmptyTable, demo |-> EmptyTable]
    /\ master = EmptyTable
    /\ health_df = <<>>
    /\ err = "none"
    /\ invoked = <<>>
    /\ out = <<>>
    /\ artifacts = {}
    /\ variance = NoVariance
    /\ top_risk = <<>>
    /\ sentinel = [skipped |-> FALSE, anomalies |-> {}]

AuditSpec == AuditInit /\ [][Next]_vars

\* the last three of the Critical Risk rows
CriticalTail(table) ==
    LET crit == SelectSeq(table, LAMBDA r : r.risk_category = "Critical Risk")
    IN  SubSeq(crit, IF Len(crit) > 3 THEN Len(crit) - 2 ELSE 1, Len(crit))

\* critical = health_df[health_df['risk_category'] == 'Critical Risk'], then
\* critical.head(3): the rows main prints as the districts to audit
TopCritical(table) == HeadN(SelectSeq(table, LAMBDA r : r.risk_category = "Critical Risk"), 3)

\* C24: the table generate_health_index returns is in non-decreasing health_index, so
\* the districts main prints to audit are the Critical Risk districts of lowest
\* health_index, three of them or all when they are fewer
C24_AuditsLowestCritical ==
    health_df # <<>> =>
      /\ \A i, j \in 1..Len(health_df) :
            i < j => FLeq(health_df[i].val["health_index"], health_df[j].val["health_index"])
      /\ \A top \in {TopCritical(health_df)} :
         \A crit \in {{health_df[i] : i \in {k \in 1..Len(health_df) :
                                              health_df[k].risk_category = "Critical Risk"}}} :
            /\ Len(top) = IF Cardinality(crit) < 3 THEN Cardinality(crit) ELSE 3
            /\ \A k \in 1..Len(top) :
                  /\ top[k] \in crit
                  /\ \A l \in 1..Len(top) : l # k => top[l].key # top[k].key
                  /\ \A r \in crit :
                        (\A l \in 1..Len(top) : top[l].key # r.key)
                            => FLeq(top[k].val["health_index"], r.val["health_index"])

\* main printed its alert for a table with more than three Critical Risk districts,
\* not all of the same health_index
C24_Witness ==
    /\ entry = "main"
    /\ pc = "done"
    /\ \E i, j \in 1..Len(health_df) :
          /\ j >= i + 3
          /\ \A k \in i..j : health_df[k].risk_category = "Critical Risk"
          /\ health_df[i].val["health_index"] # health_df[j].val["health_index"]


\* ------------------------------------------- the district the reporter charts

C27_ConsumersLeaveTableUnchanged ==
    pc # "start" => master = LoadAndEngineerData(feat)


\* ------------------------------------------------ the spelling of state names

\* state names as the shards spell them: the five variants of the fix-up table, the
\* five names it maps them to, and a variant in lower case with a trailing blank
StateSpellings ==
    {"Westbengal", "West Bengal", "Orissa", "Odisha", "Uttaranchal", "Uttarakhand",
     "Delhi", "NCT Of Delhi", "Tamilnadu", "Tamil Nadu", "orissa "}

\* the state normalisation of clean_standardize: title-case, strip, fix-up table
CanonState(s) == StateMap(TitleStrip(s))

\* an enrolment shard of two records for one pincode, each state spelled in any way
CanonInit ==
    /\ \E s1 \in StateSpellings, s2 \in StateSpellings :
          raw = [enrol |-> [i \in 1..2 |->
                              [state |-> IF i = 1 THEN s1 ELSE s2, district |-> "Puri",
                               pincode |-> 1, date |-> "01-03-2025", age_0_5 |-> 0,
                               age_5_17 |-> 1, age_18_greater |-> 1]],
                 bio   |-> <<>>,
                 demo  |-> <<>>]
    /\ entry = "none"
    /\ pc = "start"
    /\ feat = [enrol |-> EmptyTable, bio |-> EmptyTable, demo |-> EmptyTable]
    /\ master = EmptyTable
    /\ health_df = <<>>
    /\ err = "none"
    /\ invoked = <<>>
    /\ out = <<>>
    /\ artifacts = {}
    /\ variance = NoVariance
    /\ top_risk = <<>>
    /\ sentinel = [skipped |-> FALSE, anomalies |-> {}]

CanonSpec == CanonInit /\ [][LoadNext]_vars

\* C28: the state normalisation is idempotent: applied to a name clean_standardize has
\* produced, the names of the fix-up table included, it returns the name unchanged; so
\* a record spelled canonically and a record spelled as a known variant of the same
\* state have the same state key
C28_CanonIdempotent ==
    pc # "start" =>
      /\ \A df \in {Cleaned("enrol")} :
            \A i \in 1..Len(df) : CanonState(df[i].state) = df[i].state
      /\ \A r \in master.rows : CanonState(r.key[1]) = r.key[1]


\* ------------------------------------------------- what a district is keyed on

\* C29: the Child-Gap Reporter aggregates on the district name alone, so that rows of
\* different states with one district name make a single gap entry, whereas the
\* Health Scorer and the Variance Reporter aggregate on (state, district) and keep
\* them as separate districts
C29_GapKeyedOnNameAlone ==
    /\ (Called("analyze_mbu_gap") /\ err = "none") =>
          /\ {top_risk[i].district : i \in 1..Len(top_risk)} = {r.key[2] : r \in master.rows}
          /\ \A i, j \in 1..Len(top_risk) : i # j => top_risk[i].district # top_risk[j].district
          /\ \A i \in 1..Len(top_risk) :
                top_risk[i].gap =
                    FSub(SumSeq(Series({r \in master.rows : r.key[2] = top_risk[i].district},
                                       "enrol_child_sum")),
                         SumSeq(Series({r \in master.rows : r.key[2] = top_risk[i].district},
                                       "bio_child_sum")))
    /\ health_df # <<>> =>
          /\ {health_df[i].key : i \in 1..Len(health_df)} = DistrictsOf(master)
          /\ Len(health_df) = Cardinality(DistrictsOf(master))
          /\ \A i \in 1..Len(health_df) :
                health_df[i].val["enrol_child_sum"] =
                    SumSeq(Series({r \in master.rows : DistrictOf(r) = health_df[i].key},
                                  "enrol_child_sum"))
    /\ VarianceDone =>
          /\ variance.top \in DistrictsOf(master)
          /\ {variance.chart[i] : i \in 1..Len(variance.chart)}
                = {r.key[3] : r \in {q \in master.rows : DistrictOf(q) = variance.top}}

\* every stage ran on a table where two states have a district of the same name, which
\* the gap report holds once and the health table twice
C29_Witness ==
    /\ pc = "done"
    /\ \E r, q \in master.rows : r.key[2] = q.key[2] /\ r.key[1] # q.key[1]
    /\ Len(top_risk) = 2
    /\ Len(health_df) = 3
    /\ \E i \in 1..Len(top_risk) :
          top_risk[i].district = "Puri" /\ FLess(Zero, top_risk[i].gap)

====
